---- MODULE Spec2Model ----
(***************************************************************************)
(* RV-C source address claim arbitration of rv-link-node-red.              *)
(*                                                                         *)
(* Each node runs three Node-RED function nodes that share flow, global    *)
(* and node context:                                                       *)
(*   address_claim_request.js  start / reset / retry: select an address,   *)
(*                             broadcast the claim, arm the 250 ms timer   *)
(*   address_claim_monitor.js  inbound ADDRESS_CLAIMED frames              *)
(*   address_claim_success.js  timer expiry: commit                        *)
(* Messages between the function nodes, frames on the bus and armed        *)
(* timers are in flight between handler runs; every handler runs to        *)
(* completion.                                                             *)
(***************************************************************************)
EXTENDS Integers, Sequences, FiniteSets, TLC

\* ------------------------------------------------------------------------
\* Bounds of the model
\* ------------------------------------------------------------------------
MaxRequests == 1    \* operator triggers (start / reset_device_id) per node on a noisy bus
MaxOperator == 2    \* operator triggers per node on a bus with one competitor
MaxSent == 3        \* frames a node has sent when its encoders stop

\* ------------------------------------------------------------------------
\* Program constants
\* ------------------------------------------------------------------------
STARTING_ADDRESS == 223
MIN_ADDRESS == 208
priority == 6
SerialLimit == 2097151      \* 0x1FFFFF

NULL == -1                  \* null / undefined in a number slot
NaN == -2                   \* parseInt found no digits
NullStr == <<"null">>       \* null / undefined in a string slot

Nodes == {1, 2}

\* ------------------------------------------------------------------------
\* Strings of the program: sequences of one-character strings
\* ------------------------------------------------------------------------
HexDigits   == <<"0","1","2","3","4","5","6","7","8","9","A","B","C","D","E","F">>
LowerDigits == <<"0","1","2","3","4","5","6","7","8","9","a","b","c","d","e","f">>

\* String.prototype.toUpperCase, one character
UpperChar(c) ==
  IF \E i \in 11..16 : LowerDigits[i] = c
  THEN HexDigits[CHOOSE i \in 11..16 : LowerDigits[i] = c]
  ELSE c

toUpperCase(s) == [i \in 1..Len(s) |-> UpperChar(s[i])]

IsHexChar(c) == \E i \in 1..16 : HexDigits[i] = UpperChar(c)

HexVal(c) == (CHOOSE i \in 1..16 : HexDigits[i] = UpperChar(c)) - 1

\* Number.prototype.toString(16)
RECURSIVE toString16(_)
toString16(n) ==
  IF n < 16 THEN <<LowerDigits[n + 1]>>
  ELSE toString16(n \div 16) \o <<LowerDigits[(n % 16) + 1]>>

\* String.prototype.padStart(w, '0')
RECURSIVE padStart(_, _)
padStart(s, w) == IF Len(s) >= w THEN s ELSE padStart(<<"0">> \o s, w)

\* parseInt(s, 16): the value of the longest prefix of hexadecimal digits,
\* NaN when there is none or the argument is undefined
RECURSIVE HexPrefixValue(_, _)
HexPrefixValue(s, acc) ==
  IF s = <<>> \/ ~IsHexChar(Head(s)) THEN acc
  ELSE HexPrefixValue(Tail(s), acc * 16 + HexVal(Head(s)))

parseInt16(s) ==
  IF s = NullStr \/ s = <<>> \/ ~IsHexChar(Head(s)) THEN NaN
  ELSE HexPrefixValue(s, 0)

\* BigInt("0x" + s) throws a SyntaxError unless s is a non-empty string of
\* hexadecimal digits
BigIntParses(s) == s # <<>> /\ \A i \in 1..Len(s) : IsHexChar(s[i])

\* The value of BigInt("0x" + s) exceeds the machine integers of the model
\* checker: it is kept as its digits without leading zeros, and two values
\* are compared as arbitrary-precision naturals are: by length, then digit
\* by digit from the most significant one.
RECURSIVE StripZeros(_)
StripZeros(s) ==
  IF s # <<>> /\ HexVal(Head(s)) = 0 THEN StripZeros(Tail(s)) ELSE s

RECURSIVE DigitsLess(_, _)
DigitsLess(a, b) ==
  IF a = <<>> THEN FALSE
  ELSE IF HexVal(Head(a)) # HexVal(Head(b))
       THEN HexVal(Head(a)) < HexVal(Head(b))
       ELSE DigitsLess(Tail(a), Tail(b))

BigIntLess(a, b) ==
  LET x == StripZeros(a)
      y == StripZeros(b)
  IN IF Len(x) # Len(y) THEN Len(x) < Len(y) ELSE DigitsLess(x, y)

\* a | b and a << k on non-negative 32-bit operands
RECURSIVE BitOr(_, _)
BitOr(a, b) ==
  IF a = 0 THEN b
  ELSE IF b = 0 THEN a
  ELSE 2 * BitOr(a \div 2, b \div 2) + (IF a % 2 = 1 \/ b % 2 = 1 THEN 1 ELSE 0)

RECURSIVE ShiftLeft(_, _)
ShiftLeft(a, k) == IF k = 0 THEN a ELSE ShiftLeft(2 * a, k - 1)


\* ------------------------------------------------------------------------
\* Identities and bus frames
\* ------------------------------------------------------------------------
IdPrefix == <<"8","0","0","0","0","0","0","0","0","0">>

\* stored identity of the documented scenarios: 8000000000ABCDEF
NameScenario == IdPrefix \o <<"A","B","C","D","E","F">>
\* identity of the competing device of the documented scenario
NameCompetitor == <<"7","0","0","0","0","0","0","0","0","0","1","1","2","2","3","3">>
\* a foreign identity above every identity this program generates
NameLarge == <<"9","0","0","0","0","0","0","0","0","0","0","0","0","0","0","1">>

\* Math.floor(Math.random() * 0x1FFFFF): the values the model draws
SerialChoices == {2587, SerialLimit - 1}

\* (mutant) the serial is not padded to 6 digits
GenerateId_NoPad(randomSerial) ==
  IdPrefix \o toUpperCase(toString16(randomSerial))

\* address_claim_request.js, step 2: "8000000000" + 6 upper-case hex digits
GenerateId(randomSerial) ==
  IdPrefix \o toUpperCase(padStart(toString16(randomSerial), 6))

\* !uniqueId
Falsy(s) == s = NullStr \/ s = <<>>

\* (mutant) an if in place of the while: one used address is skipped at most
SkipUsed_Once(addressToTry, usedAddresses) ==
  IF addressToTry \in usedAddresses /\ addressToTry >= MIN_ADDRESS
  THEN addressToTry - 1
  ELSE addressToTry

\* address_claim_request.js, step 3: the while loop over used addresses
RECURSIVE SkipUsed(_, _)
SkipUsed(addressToTry, usedAddresses) ==
  IF addressToTry \in usedAddresses /\ addressToTry >= MIN_ADDRESS
  THEN SkipUsed(addressToTry - 1, usedAddresses)
  ELSE addressToTry

\* (mutant) a retry announces the lost address again
SelectAddress_NoDecrement(attempt, topic, usedAddresses) ==
  SkipUsed(IF attempt # NULL /\ attempt # 0 THEN attempt ELSE STARTING_ADDRESS,
           usedAddresses)

\* address_claim_request.js, step 3: the candidate address
SelectAddress(attempt, topic, usedAddresses) ==
  LET first == IF attempt # NULL /\ attempt # 0 THEN attempt ELSE STARTING_ADDRESS
      next  == IF topic = "address_claim_retry" THEN first - 1 ELSE first
  IN SkipUsed(next, usedAddresses)

\* address_claim_request.js, step 4: the 8 hex digits of the CAN identifier
DGN == <<"E","E","0","0">>

\* (mutant) the identifier is left in lower case
CanIdHex_LowerCase(addressToTry) ==
  padStart(toString16(
      BitOr(BitOr(ShiftLeft(priority, 26), ShiftLeft(parseInt16(DGN), 8)),
            addressToTry)), 8)

CanIdHex(addressToTry) ==
  toUpperCase(padStart(toString16(
      BitOr(BitOr(ShiftLeft(priority, 26), ShiftLeft(parseInt16(DGN), 8)),
            addressToTry)), 8))

\* canIdHex for every value of the low byte, computed once
canIdHex == [addressToTry \in 0..255 |-> CanIdHex(addressToTry)]

ClaimFrame(addressToTry, deviceName) ==
  [id |-> canIdHex[addressToTry], data |-> deviceName]

\* The decoder in front of the monitor hands over the source address (the
\* low byte of the identifier, in hex) and the payload of the frame.
Decode(frame) ==
  [sourceAddress |-> SubSeq(frame.id, Len(frame.id) - 1, Len(frame.id)),
   dataPayload |-> frame.data]

NoMsg == [sourceAddress |-> NullStr, dataPayload |-> NullStr]

\* The sets of externally known occupied addresses the model starts from.
\* They leave free: 223 and 222; 223 and 220; 222 only; nothing.
UsedChoices ==
  { MIN_ADDRESS..221,
    (MIN_ADDRESS..219) \cup {221, 222},
    (MIN_ADDRESS..221) \cup {STARTING_ADDRESS},
    MIN_ADDRESS..STARTING_ADDRESS }

StoredIds == {NullStr, NameScenario}

\* ------------------------------------------------------------------------
\* State
\* ------------------------------------------------------------------------
VARIABLES
  my_persistent_rvc_id,   \* global context: the durable identity
  rvc_source_address,     \* global context: the committed address
  address_attempt,        \* node context of the request function
  claim_in_progress,      \* flow context
  claiming_address,       \* flow context
  our_device_name,        \* flow context
  used_addresses,         \* flow context, written by collaborators only
  timers,                 \* armed 250 ms timers, oldest first
  inbox,                  \* claim frames of the nodes not yet seen by the monitor, oldest first
  retryMsgs,              \* address_claim_retry messages on the wire to the request function
  resetMsgs,              \* {reset: true} messages on the wire to the timer
  online,                 \* the nodes that are powered
  sent,                   \* history: the frames each node put on the bus
  budget,                 \* history: operator triggers used so far
  concurrent,             \* history: addresses two nodes were claiming at the same time
  cycle,                  \* history: since the last reset or restart, whether the pool was
                          \* reported exhausted and how many retries announced an address;
                          \* since the latest announcement, how many retries the monitor
                          \* signalled and whether it processed a frame for the announced
                          \* address with an identity smaller than the node's
  last                    \* history: the handler run that led to this state

vars == <<my_persistent_rvc_id, rvc_source_address, address_attempt,
          claim_in_progress, claiming_address, our_device_name, used_addresses,
          timers, inbox, retryMsgs, resetMsgs, online, sent, budget, concurrent,
          cycle, last>>

\* ann: the number of the announcement that armed the timer of a "success" run
Event(op, n, topic, token, msg, outcome) ==
  [op |-> op, node |-> n, topic |-> topic, token |-> token, msg |-> msg,
   outcome |-> outcome, ann |-> 0]

NewCycle == [failed |-> FALSE, retries |-> 0, lost |-> 0, beaten |-> FALSE]

InitWith(powered) ==
  /\ online = powered
  /\ my_persistent_rvc_id \in [Nodes -> StoredIds]
  /\ \A n \in Nodes \ powered : my_persistent_rvc_id[n] = NullStr
  /\ used_addresses \in [Nodes -> UsedChoices]
  /\ \A n \in Nodes \ powered : used_addresses[n] = MIN_ADDRESS..STARTING_ADDRESS
  /\ rvc_source_address = [n \in Nodes |-> NULL]
  /\ address_attempt = [n \in Nodes |-> NULL]
  /\ claim_in_progress = [n \in Nodes |-> FALSE]
  /\ claiming_address = [n \in Nodes |-> NULL]
  /\ our_device_name = [n \in Nodes |-> NullStr]
  /\ timers = [n \in Nodes |-> <<>>]
  /\ inbox = [n \in Nodes |-> <<>>]
  /\ retryMsgs = [n \in Nodes |-> 0]
  /\ resetMsgs = [n \in Nodes |-> 0]
  /\ sent = [n \in Nodes |-> <<>>]
  /\ budget = [n \in Nodes |-> 0]
  /\ concurrent = {}
  /\ cycle = [n \in Nodes |-> NewCycle]
  /\ last = Event("init", 0, "", NULL, NoMsg, "")

Init == InitWith({1})

\* A frame put on the bus reaches the monitor of every powered node, the
\* sender's own included, in the order of the bus.
Broadcast(n, frame) ==
  [m \in Nodes |->
     IF m \in online THEN Append(inbox[m], Decode(frame)) ELSE inbox[m]]

\* ------------------------------------------------------------------------
\* address_claim_request.js
\* ------------------------------------------------------------------------
\* (mutant) the pool counts as exhausted one address too late
PoolExhausted_OffByOne(addressToTry) == addressToTry < MIN_ADDRESS - 1

\* address_claim_request.js, step 3: no address is left in the valid range
PoolExhausted(addressToTry) == addressToTry < MIN_ADDRESS

\* (mutant) reset_device_id leaves the attempt counter as it is
RequestRun_ResetKeepsAttempt(n, topic, randomSerial) ==
  LET isReset   == topic = "reset_device_id"
      storedId  == IF isReset THEN NullStr ELSE my_persistent_rvc_id[n]
      attempt   == address_attempt[n]
      uniqueId  == IF Falsy(storedId) THEN GenerateId(randomSerial) ELSE storedId
      addressToTry == SelectAddress(attempt, topic, used_addresses[n])
      frame     == ClaimFrame(addressToTry, uniqueId)
      before    == IF isReset
                   THEN [NewCycle EXCEPT !.lost = cycle[n].lost, !.beaten = cycle[n].beaten]
                   ELSE cycle[n]
      fresh     == [before EXCEPT !.lost = 0, !.beaten = FALSE]
  IN /\ my_persistent_rvc_id' = [my_persistent_rvc_id EXCEPT ![n] = uniqueId]
     /\ UNCHANGED <<rvc_source_address, used_addresses, resetMsgs, online>>
     /\ IF PoolExhausted(addressToTry)
        THEN /\ address_attempt' = [address_attempt EXCEPT ![n] = attempt]
             /\ cycle' = [cycle EXCEPT ![n] = [before EXCEPT !.failed = TRUE]]
             /\ claim_in_progress' = [claim_in_progress EXCEPT ![n] = FALSE]
             /\ UNCHANGED <<claiming_address, our_device_name, timers, inbox, sent,
                            concurrent>>
             /\ last' = Event("request", n, topic, NULL, NoMsg, "exhausted")
        ELSE /\ address_attempt' = [address_attempt EXCEPT ![n] = addressToTry]
             /\ claiming_address' = [claiming_address EXCEPT ![n] = addressToTry]
             /\ claim_in_progress' = [claim_in_progress EXCEPT ![n] = TRUE]
             /\ our_device_name' = [our_device_name EXCEPT ![n] = uniqueId]
             /\ sent' = [sent EXCEPT ![n] = Append(@, frame)]
             /\ inbox' = Broadcast(n, frame)
             /\ timers' = [timers EXCEPT ![n] =
                             Append(@, [token |-> addressToTry, ann |-> Len(sent[n]) + 1])]
             /\ concurrent' =
                  IF \E m \in Nodes \ {n} :
                       claim_in_progress[m] /\ claiming_address[m] = addressToTry
                  THEN concurrent \cup {addressToTry} ELSE concurrent
             /\ cycle' = [cycle EXCEPT ![n] =
                            IF topic = "address_claim_retry"
                            THEN [fresh EXCEPT !.retries = @ + 1] ELSE fresh]
             /\ last' = Event("request", n, topic, addressToTry, NoMsg, "announced")

\* address_claim_request.js: one run of the function for a message
RequestRun(n, topic, randomSerial) ==
  LET isReset   == topic = "reset_device_id"
      storedId  == IF isReset THEN NullStr ELSE my_persistent_rvc_id[n]
      attempt   == IF isReset THEN NULL ELSE address_attempt[n]
      uniqueId  == IF Falsy(storedId) THEN GenerateId(randomSerial) ELSE storedId
      addressToTry == SelectAddress(attempt, topic, used_addresses[n])
      frame     == ClaimFrame(addressToTry, uniqueId)
      before    == IF isReset
                   THEN [NewCycle EXCEPT !.lost = cycle[n].lost, !.beaten = cycle[n].beaten]
                   ELSE cycle[n]
      fresh     == [before EXCEPT !.lost = 0, !.beaten = FALSE]
  IN /\ my_persistent_rvc_id' = [my_persistent_rvc_id EXCEPT ![n] = uniqueId]
     /\ UNCHANGED <<rvc_source_address, used_addresses, resetMsgs, online>>
     /\ IF PoolExhausted(addressToTry)
        THEN /\ address_attempt' = [address_attempt EXCEPT ![n] = attempt]
             /\ cycle' = [cycle EXCEPT ![n] = [before EXCEPT !.failed = TRUE]]
             /\ claim_in_progress' = [claim_in_progress EXCEPT ![n] = FALSE]
             /\ UNCHANGED <<claiming_address, our_device_name, timers, inbox, sent,
                            concurrent>>
             /\ last' = Event("request", n, topic, NULL, NoMsg, "exhausted")
        ELSE /\ address_attempt' = [address_attempt EXCEPT ![n] = addressToTry]
             /\ claiming_address' = [claiming_address EXCEPT ![n] = addressToTry]
             /\ claim_in_progress' = [claim_in_progress EXCEPT ![n] = TRUE]
             /\ our_device_name' = [our_device_name EXCEPT ![n] = uniqueId]
             /\ sent' = [sent EXCEPT ![n] = Append(@, frame)]
             /\ inbox' = Broadcast(n, frame)
             /\ timers' = [timers EXCEPT ![n] =
                             Append(@, [token |-> addressToTry, ann |-> Len(sent[n]) + 1])]
             /\ concurrent' =
                  IF \E m \in Nodes \ {n} :
                       claim_in_progress[m] /\ claiming_address[m] = addressToTry
                  THEN concurrent \cup {addressToTry} ELSE concurrent
             /\ cycle' = [cycle EXCEPT ![n] =
                            IF topic = "address_claim_retry"
                            THEN [fresh EXCEPT !.retries = @ + 1] ELSE fresh]
             /\ last' = Event("request", n, topic, addressToTry, NoMsg, "announced")

\* the operator's inject: a start or a reset_device_id
Request(n, topic, limit) ==
  /\ n \in online
  /\ topic \in {"start", "reset_device_id"}
  /\ budget[n] < limit
  /\ budget' = [budget EXCEPT ![n] = @ + 1]
  /\ UNCHANGED retryMsgs
  /\ \E randomSerial \in SerialChoices : RequestRun(n, topic, randomSerial)

\* the monitor's address_claim_retry message reaches the request function
Retry(n) ==
  /\ n \in online
  /\ retryMsgs[n] > 0
  /\ retryMsgs' = [retryMsgs EXCEPT ![n] = @ - 1]
  /\ UNCHANGED budget
  /\ \E randomSerial \in SerialChoices :
       RequestRun(n, "address_claim_retry", randomSerial)


\* ------------------------------------------------------------------------
\* address_claim_monitor.js
\* ------------------------------------------------------------------------
\* The order of two identities as unsigned integers, computed on 16-bit
\* groups of their digits (independently of BigIntLess)
Group(s, i) ==
  LET p == padStart(s, 20) IN HexPrefixValue(SubSeq(p, 4 * i - 3, 4 * i), 0)

NumericallyLess(a, b) ==
  \E i \in 1..5 :
    /\ Group(a, i) < Group(b, i)
    /\ \A j \in 1..(i - 1) : Group(a, j) = Group(b, j)

IsIdentity(s) == s # NullStr /\ Len(s) \in 1..20 /\ \A i \in 1..Len(s) : IsHexChar(s[i])

\* (mutant) no check for the node's own frame
MonitorOutcome_NoEchoCheck(claimInProgress, claimingAddress, ourDeviceName, msg) ==
  IF ~claimInProgress THEN "not_claiming"
  ELSE IF msg.dataPayload = NullStr THEN "error"
  ELSE LET competitorName == toUpperCase(msg.dataPayload)
           sourceAddressInt == parseInt16(msg.sourceAddress)
       IN IF sourceAddressInt # claimingAddress THEN "other_address"
          ELSE IF ~BigIntParses(ourDeviceName) \/ ~BigIntParses(competitorName)
               THEN "error"
          ELSE IF BigIntLess(ourDeviceName, competitorName) THEN "win"
          ELSE "lose"

\* (mutant) the larger identity wins
MonitorOutcome_LargerWins(claimInProgress, claimingAddress, ourDeviceName, msg) ==
  IF ~claimInProgress THEN "not_claiming"
  ELSE IF msg.dataPayload = NullStr THEN "error"
  ELSE LET competitorName == toUpperCase(msg.dataPayload)
           sourceAddressInt == parseInt16(msg.sourceAddress)
       IN IF sourceAddressInt # claimingAddress THEN "other_address"
          ELSE IF competitorName = ourDeviceName THEN "echo"
          ELSE IF ~BigIntParses(ourDeviceName) \/ ~BigIntParses(competitorName)
               THEN "error"
          ELSE IF BigIntLess(competitorName, ourDeviceName) THEN "win"
          ELSE "lose"

\* (mutant) no check that a claim is in progress
MonitorOutcome_NoClaimingGuard(claimInProgress, claimingAddress, ourDeviceName, msg) ==
  IF msg.dataPayload = NullStr THEN "error"
  ELSE LET competitorName == toUpperCase(msg.dataPayload)
           sourceAddressInt == parseInt16(msg.sourceAddress)
       IN IF sourceAddressInt # claimingAddress THEN "other_address"
          ELSE IF competitorName = ourDeviceName THEN "echo"
          ELSE IF ~BigIntParses(ourDeviceName) \/ ~BigIntParses(competitorName)
               THEN "error"
          ELSE IF BigIntLess(ourDeviceName, competitorName) THEN "win"
          ELSE "lose"

\* (mutant) an identity that does not parse counts as the smaller one
MonitorOutcome_UnparsedLoses(claimInProgress, claimingAddress, ourDeviceName, msg) ==
  IF ~claimInProgress THEN "not_claiming"
  ELSE IF msg.dataPayload = NullStr THEN "error"
  ELSE LET competitorName == toUpperCase(msg.dataPayload)
           sourceAddressInt == parseInt16(msg.sourceAddress)
       IN IF sourceAddressInt # claimingAddress THEN "other_address"
          ELSE IF competitorName = ourDeviceName THEN "echo"
          ELSE IF ~BigIntParses(ourDeviceName) \/ ~BigIntParses(competitorName)
               THEN "lose"
          ELSE IF BigIntLess(ourDeviceName, competitorName) THEN "win"
          ELSE "lose"

\* What one run of the monitor decides for an inbound message
MonitorOutcome(claimInProgress, claimingAddress, ourDeviceName, msg) ==
  IF ~claimInProgress THEN "not_claiming"
  ELSE IF msg.dataPayload = NullStr THEN "error"        \* undefined.toUpperCase()
  ELSE LET competitorName == toUpperCase(msg.dataPayload)
           sourceAddressInt == parseInt16(msg.sourceAddress)
       IN IF sourceAddressInt # claimingAddress THEN "other_address"
          ELSE IF competitorName = ourDeviceName THEN "echo"
          ELSE IF ~BigIntParses(ourDeviceName) \/ ~BigIntParses(competitorName)
               THEN "error"                             \* BigInt throws
          ELSE IF BigIntLess(ourDeviceName, competitorName) THEN "win"
          ELSE "lose"

\* the frame is one for the address node n announced last and carries an
\* identity numerically smaller than the identity of the node
Beats(n, msg) ==
  /\ claiming_address[n] # NULL
  /\ msg.sourceAddress # NullStr
  /\ parseInt16(msg.sourceAddress) = claiming_address[n]
  /\ IsIdentity(msg.dataPayload) /\ IsIdentity(my_persistent_rvc_id[n])
  /\ NumericallyLess(msg.dataPayload, my_persistent_rvc_id[n])

\* (mutant) a lost conflict clears claiming_address
MonitorRun_LossClearsAddress(n, msg) ==
  LET outcome == MonitorOutcome(claim_in_progress[n], claiming_address[n],
                                our_device_name[n], msg)
  IN /\ last' = Event("monitor", n, "", NULL,
                      IF claim_in_progress[n] THEN msg ELSE NoMsg, outcome)
     /\ cycle' = [cycle EXCEPT ![n] =
                    [@ EXCEPT !.beaten = @ \/ Beats(n, msg),
                              !.lost = IF outcome = "lose" THEN @ + 1 ELSE @]]
     /\ IF outcome = "lose"
        THEN /\ claim_in_progress' = [claim_in_progress EXCEPT ![n] = FALSE]
             /\ retryMsgs' = [retryMsgs EXCEPT ![n] = @ + 1]
             /\ resetMsgs' = [resetMsgs EXCEPT ![n] = @ + 1]
             /\ claiming_address' = [claiming_address EXCEPT ![n] = NULL]
        ELSE UNCHANGED <<claim_in_progress, retryMsgs, resetMsgs, claiming_address>>
     /\ UNCHANGED <<my_persistent_rvc_id, rvc_source_address, address_attempt,
                    our_device_name, used_addresses, timers,
                    online, sent, concurrent>>

\* (mutant) a lost conflict clears rvc_source_address
MonitorRun_LossClearsCommitted(n, msg) ==
  LET outcome == MonitorOutcome(claim_in_progress[n], claiming_address[n],
                                our_device_name[n], msg)
  IN /\ last' = Event("monitor", n, "", NULL,
                      IF claim_in_progress[n] THEN msg ELSE NoMsg, outcome)
     /\ cycle' = [cycle EXCEPT ![n] =
                    [@ EXCEPT !.beaten = @ \/ Beats(n, msg),
                              !.lost = IF outcome = "lose" THEN @ + 1 ELSE @]]
     /\ IF outcome = "lose"
        THEN /\ claim_in_progress' = [claim_in_progress EXCEPT ![n] = FALSE]
             /\ retryMsgs' = [retryMsgs EXCEPT ![n] = @ + 1]
             /\ resetMsgs' = [resetMsgs EXCEPT ![n] = @ + 1]
             /\ rvc_source_address' = [rvc_source_address EXCEPT ![n] = NULL]
        ELSE UNCHANGED <<claim_in_progress, retryMsgs, resetMsgs, rvc_source_address>>
     /\ UNCHANGED <<my_persistent_rvc_id, address_attempt,
                    claiming_address, our_device_name, used_addresses, timers,
                    online, sent, concurrent>>

\* (mutant) a lost conflict leaves claim_in_progress set
MonitorRun_LossKeepsClaiming(n, msg) ==
  LET outcome == MonitorOutcome(claim_in_progress[n], claiming_address[n],
                                our_device_name[n], msg)
  IN /\ last' = Event("monitor", n, "", NULL,
                      IF claim_in_progress[n] THEN msg ELSE NoMsg, outcome)
     /\ cycle' = [cycle EXCEPT ![n] =
                    [@ EXCEPT !.beaten = @ \/ Beats(n, msg),
                              !.lost = IF outcome = "lose" THEN @ + 1 ELSE @]]
     /\ IF outcome = "lose"
        THEN /\ retryMsgs' = [retryMsgs EXCEPT ![n] = @ + 1]
             /\ resetMsgs' = [resetMsgs EXCEPT ![n] = @ + 1]
        ELSE UNCHANGED <<retryMsgs, resetMsgs>>
     /\ UNCHANGED <<my_persistent_rvc_id, rvc_source_address, address_attempt,
                    claim_in_progress, claiming_address, our_device_name,
                    used_addresses, timers, online, sent, concurrent>>

\* address_claim_monitor.js: one run of the function for an inbound message
MonitorRun(n, msg) ==
  LET outcome == MonitorOutcome(claim_in_progress[n], claiming_address[n],
                                our_device_name[n], msg)
  IN /\ last' = Event("monitor", n, "", NULL,
                      IF claim_in_progress[n] THEN msg ELSE NoMsg, outcome)
     /\ cycle' = [cycle EXCEPT ![n] =
                    [@ EXCEPT !.beaten = @ \/ Beats(n, msg),
                              !.lost = IF outcome = "lose" THEN @ + 1 ELSE @]]
     /\ IF outcome = "lose"
        THEN /\ claim_in_progress' = [claim_in_progress EXCEPT ![n] = FALSE]
             /\ retryMsgs' = [retryMsgs EXCEPT ![n] = @ + 1]
             /\ resetMsgs' = [resetMsgs EXCEPT ![n] = @ + 1]
        ELSE UNCHANGED <<claim_in_progress, retryMsgs, resetMsgs>>
     /\ UNCHANGED <<my_persistent_rvc_id, rvc_source_address, address_attempt,
                    claiming_address, our_device_name, used_addresses, timers,
                    online, sent, concurrent>>

\* the next frame sent by one of the nodes reaches the monitor of node n
Monitor(n) ==
  /\ n \in online
  /\ inbox[n] # <<>>
  /\ inbox' = [inbox EXCEPT ![n] = Tail(@)]
  /\ UNCHANGED budget
  /\ MonitorRun(n, Head(inbox[n]))

\* The claim frames foreign devices send to node n: every kind of identity
\* at the address the node is claiming (223 when it claims none), a
\* competitor at 223 (abandoned once the node has moved on), and frames at
\* another address or without an address or identity
ForeignFrames(n) ==
  LET here  == toUpperCase(toString16(IF claiming_address[n] = NULL
                                      THEN STARTING_ADDRESS ELSE claiming_address[n]))
      other == toUpperCase(toString16(MIN_ADDRESS - 1))
      names == {NameCompetitor, NameLarge, NullStr, <<"Z","Z">>}
               \cup (IF our_device_name[n] = NullStr THEN {}
                     ELSE {our_device_name[n], <<"0">> \o our_device_name[n]})
  IN {[sourceAddress |-> here, dataPayload |-> name] : name \in names}
     \cup {[sourceAddress |-> toUpperCase(toString16(STARTING_ADDRESS)),
            dataPayload |-> NameCompetitor],
           [sourceAddress |-> other, dataPayload |-> NameCompetitor],
           [sourceAddress |-> other, dataPayload |-> NullStr],
           [sourceAddress |-> NullStr, dataPayload |-> NameCompetitor]}

\* a claim frame of a foreign device reaches the monitor of node n
Foreign(n, msg) ==
  /\ n \in online
  /\ UNCHANGED <<inbox, budget>>
  /\ MonitorRun(n, msg)

\* ------------------------------------------------------------------------
\* address_claim_success.js
\* ------------------------------------------------------------------------
\* (mutant) the token of the timer is not compared with the live address
SuccessOutcome_NoTokenCheck(claimedAddress, claimInProgress, currentClaimingAddress) ==
  IF claimedAddress = NULL THEN "missing"
  ELSE IF ~claimInProgress THEN "cancelled"
  ELSE "commit"

\* What one run of the timer handler decides for the token of its message
SuccessOutcome(claimedAddress, claimInProgress, currentClaimingAddress) ==
  IF claimedAddress = NULL THEN "missing"
  ELSE IF ~claimInProgress THEN "cancelled"
  ELSE IF currentClaimingAddress # claimedAddress THEN "stale"
  ELSE "commit"

\* (mutant) the commit leaves our_device_name set
SuccessRun_KeepsName(n, claimedAddress, ann) ==
  LET outcome == SuccessOutcome(claimedAddress, claim_in_progress[n],
                                claiming_address[n])
  IN /\ last' = [Event("success", n, "", claimedAddress, NoMsg, outcome)
                    EXCEPT !.ann = ann]
     /\ IF outcome = "commit"
        THEN /\ rvc_source_address' = [rvc_source_address EXCEPT ![n] = claimedAddress]
             /\ claim_in_progress' = [claim_in_progress EXCEPT ![n] = FALSE]
             /\ claiming_address' = [claiming_address EXCEPT ![n] = NULL]
             /\ UNCHANGED our_device_name
        ELSE UNCHANGED <<rvc_source_address, claim_in_progress, claiming_address,
                         our_device_name>>
     /\ UNCHANGED <<my_persistent_rvc_id, address_attempt, used_addresses, inbox,
                    retryMsgs, resetMsgs, online, sent, concurrent, cycle>>

SuccessRun(n, claimedAddress, ann) ==
  LET outcome == SuccessOutcome(claimedAddress, claim_in_progress[n],
                                claiming_address[n])
  IN /\ last' = [Event("success", n, "", claimedAddress, NoMsg, outcome)
                    EXCEPT !.ann = ann]
                  @@ [ann |-> ann]
     /\ IF outcome = "commit"
        THEN /\ rvc_source_address' = [rvc_source_address EXCEPT ![n] = claimedAddress]
             /\ claim_in_progress' = [claim_in_progress EXCEPT ![n] = FALSE]
             /\ claiming_address' = [claiming_address EXCEPT ![n] = NULL]
             /\ our_device_name' = [our_device_name EXCEPT ![n] = NullStr]
        ELSE UNCHANGED <<rvc_source_address, claim_in_progress, claiming_address,
                         our_device_name>>
     /\ UNCHANGED <<my_persistent_rvc_id, address_attempt, used_addresses, inbox,
                    retryMsgs, resetMsgs, online, sent, concurrent, cycle>>

\* the oldest armed timer expires and hands its message to the handler
TimerFired(n) ==
  /\ n \in online
  /\ timers[n] # <<>>
  /\ timers' = [timers EXCEPT ![n] = Tail(@)]
  /\ UNCHANGED budget
  /\ SuccessRun(n, Head(timers[n]).token, Head(timers[n]).ann)

\* a message without claiming_address reaches the handler
StrayTimer(n) ==
  /\ n \in online
  /\ UNCHANGED <<timers, budget>>
  /\ SuccessRun(n, NULL, 0)

\* ------------------------------------------------------------------------
\* "Store Claimed Address" (unique_autofill.js, lines 18-90): the second
\* timer handler of the source
\* ------------------------------------------------------------------------
dgnHigh == <<"E","E">>
dgnLow == <<"0","0">>
addressClaimData == <<"C","3","A","1","F","0","0","7","0","0","0","0","0","0","0","0">>

StoreOutcome(claimInProgress, claimedAddress) ==
  IF ~claimInProgress THEN "cancelled"
  ELSE IF claimedAddress = NULL THEN "missing"
  ELSE "commit"

StoreCanIdHex(claimedAddress) ==
  toUpperCase(padStart(toString16(
      BitOr(BitOr(BitOr(ShiftLeft(priority, 26), ShiftLeft(parseInt16(dgnHigh), 18)),
                  ShiftLeft(parseInt16(dgnLow), 8)),
            claimedAddress)), 8))

\* the oldest armed timer expires and hands its message to this handler,
\* which reads the address from the flow context, not from the message
StoreClaimedAddress(n) ==
  /\ n \in online
  /\ timers[n] # <<>>
  /\ timers' = [timers EXCEPT ![n] = Tail(@)]
  /\ LET claimedAddress == claiming_address[n]
         outcome == StoreOutcome(claim_in_progress[n], claimedAddress)
         frame == [id |-> StoreCanIdHex(claimedAddress), data |-> addressClaimData]
     IN /\ last' = [Event("success", n, "", Head(timers[n]).token, NoMsg, outcome)
                      EXCEPT !.ann = Head(timers[n]).ann]
        /\ IF outcome = "commit"
           THEN /\ rvc_source_address' = [rvc_source_address EXCEPT ![n] = claimedAddress]
                /\ claim_in_progress' = [claim_in_progress EXCEPT ![n] = FALSE]
                /\ claiming_address' = [claiming_address EXCEPT ![n] = NULL]
                /\ sent' = [sent EXCEPT ![n] = Append(@, frame)]
                /\ inbox' = Broadcast(n, frame)
           ELSE UNCHANGED <<rvc_source_address, claim_in_progress, claiming_address,
                            sent, inbox>>
  /\ UNCHANGED <<my_persistent_rvc_id, address_attempt, our_device_name,
                 used_addresses, retryMsgs, resetMsgs, online, budget, concurrent,
                 cycle>>

\* ------------------------------------------------------------------------
\* The encoders of outgoing traffic: encode_lock_command.js, poll_locks.js
\* ------------------------------------------------------------------------
\* global.get("rvc_source_address") || 254
SOURCE_ADDRESS(n) ==
  IF rvc_source_address[n] = NULL \/ rvc_source_address[n] = 0
  THEN 254 ELSE rvc_source_address[n]

\* byte.toString(16).padStart(2, '0')
HexByte(byte) == padStart(toString16(byte), 2)

\* encode_lock_command.js: the command code, NULL for an unknown command
lockCommand(haCommand) ==
  IF haCommand = "UNLOCK" THEN 0 ELSE IF haCommand = "LOCK" THEN 1 ELSE NULL

\* encode_lock_command.js, steps 3 to 5: LOCK_COMMAND, DGN 1FEE4
LockFrame(sourceAddress, instance, haCommand) ==
  LET dataBytes == <<instance, lockCommand(haCommand), 0, 255, 255, 255, 255, 255>>
      dataHex == HexByte(dataBytes[1]) \o HexByte(dataBytes[2]) \o HexByte(dataBytes[3])
                 \o HexByte(dataBytes[4]) \o HexByte(dataBytes[5]) \o HexByte(dataBytes[6])
                 \o HexByte(dataBytes[7]) \o HexByte(dataBytes[8])
      dgnInt == parseInt16(<<"1","F","E","E","4">>)
      canIdInt == BitOr(BitOr(ShiftLeft(priority, 26), ShiftLeft(dgnInt, 8)), sourceAddress)
  IN [id |-> toUpperCase(padStart(toString16(canIdInt), 8)), data |-> toUpperCase(dataHex)]

\* poll_locks.js: the broadcast request for LOCK_STATUS, DGN 18EAFF
PollFrame(sourceAddress) ==
  LET dataPayload == <<"E","5","F","E","0","1","F","F","F","F","F","F","F","F">>
      dgnInt == parseInt16(<<"1","8","E","A","F","F">>)
      canIdInt == BitOr(ShiftLeft(dgnInt, 8), sourceAddress)
  IN [id |-> toUpperCase(padStart(toString16(canIdInt), 8)), data |-> toUpperCase(dataPayload)]

\* the frame leaves on can/send; it is no claim frame, so no monitor sees it
EncoderSends(n, op, frame) ==
  /\ sent' = [sent EXCEPT ![n] = Append(@, frame)]
  /\ last' = Event(op, n, "", SOURCE_ADDRESS(n), NoMsg, "sent")
  /\ UNCHANGED <<my_persistent_rvc_id, rvc_source_address, address_attempt,
                 claim_in_progress, claiming_address, our_device_name,
                 used_addresses, timers, inbox, retryMsgs, resetMsgs, online,
                 budget, concurrent, cycle>>

\* a lock command of the home automation reaches encode_lock_command.js
encode_lock_command(n, instance, haCommand) ==
  /\ n \in online
  /\ Len(sent[n]) < MaxSent
  /\ IF instance = NULL \/ instance < 0 \/ instance > 250 \/ lockCommand(haCommand) = NULL
     THEN /\ last' = Event("encode_lock_command", n, "", SOURCE_ADDRESS(n), NoMsg, "invalid")
          /\ UNCHANGED <<my_persistent_rvc_id, rvc_source_address, address_attempt,
                         claim_in_progress, claiming_address, our_device_name,
                         used_addresses, timers, inbox, retryMsgs, resetMsgs,
                         online, sent, budget, concurrent, cycle>>
     ELSE EncoderSends(n, "encode_lock_command",
                       LockFrame(SOURCE_ADDRESS(n), instance, haCommand))

\* the poll trigger reaches poll_locks.js
poll_locks(n) ==
  /\ n \in online
  /\ Len(sent[n]) < MaxSent
  /\ EncoderSends(n, "poll_locks", PollFrame(SOURCE_ADDRESS(n)))

\* ------------------------------------------------------------------------
\* The timer node and the world around the three handlers
\* ------------------------------------------------------------------------
\* The monitor's {reset: true} reaches the timer node.  The monitor means it
\* to cancel the running timer; the handlers do not rely on it (they check
\* for staleness), so the node either drops what it holds or lets it run.
TimerReset(n) ==
  /\ n \in online
  /\ resetMsgs[n] > 0
  /\ resetMsgs' = [resetMsgs EXCEPT ![n] = @ - 1]
  /\ \/ timers' = [timers EXCEPT ![n] = <<>>]
     \/ UNCHANGED timers
  /\ last' = Event("timer_reset", n, "", NULL, NoMsg, "")
  /\ UNCHANGED <<my_persistent_rvc_id, rvc_source_address, address_attempt,
                 claim_in_progress, claiming_address, our_device_name,
                 used_addresses, inbox, retryMsgs, online, sent, budget,
                 concurrent, cycle>>

\* The process restarts: flow and node context and everything in flight
\* inside the process are gone, the global context is kept.
Restart(n) ==
  /\ n \in online
  /\ UNCHANGED budget
  /\ address_attempt' = [address_attempt EXCEPT ![n] = NULL]
  /\ claim_in_progress' = [claim_in_progress EXCEPT ![n] = FALSE]
  /\ claiming_address' = [claiming_address EXCEPT ![n] = NULL]
  /\ our_device_name' = [our_device_name EXCEPT ![n] = NullStr]
  /\ timers' = [timers EXCEPT ![n] = <<>>]
  /\ inbox' = [inbox EXCEPT ![n] = <<>>]
  /\ retryMsgs' = [retryMsgs EXCEPT ![n] = 0]
  /\ resetMsgs' = [resetMsgs EXCEPT ![n] = 0]
  /\ cycle' = [cycle EXCEPT ![n] = NewCycle]
  /\ last' = Event("restart", n, "", NULL, NoMsg, "")
  /\ UNCHANGED <<my_persistent_rvc_id, rvc_source_address, used_addresses,
                 online, sent, concurrent>>

\* ------------------------------------------------------------------------
\* Specifications
\* ------------------------------------------------------------------------
\* One node on a bus with foreign devices that send every kind of frame
Next ==
  \E n \in Nodes :
    \/ Request(n, "start", MaxRequests)
    \/ Request(n, "reset_device_id", MaxRequests)
    \/ Retry(n)
    \/ Monitor(n)
    \/ TimerFired(n)
    \/ StrayTimer(n)
    \/ TimerReset(n)
    \/ \E msg \in ForeignFrames(n) : Foreign(n, msg)
    \/ Restart(n)

Spec == Init /\ [][Next]_vars

\* One node whose operator starts and resets repeatedly, on a bus with one
\* foreign device that competes for the address being claimed
CompetitorFrame(n) ==
  [sourceAddress |-> toUpperCase(toString16(IF claiming_address[n] = NULL
                                            THEN STARTING_ADDRESS
                                            ELSE claiming_address[n])),
   dataPayload |-> NameCompetitor]

NextOperator ==
  \E n \in Nodes :
    \/ Request(n, "start", MaxOperator)
    \/ Request(n, "reset_device_id", MaxOperator)
    \/ Retry(n)
    \/ Monitor(n)
    \/ TimerFired(n)
    \/ TimerReset(n)
    \/ Foreign(n, CompetitorFrame(n))
    \/ Restart(n)

SpecOperator == Init /\ [][NextOperator]_vars

\* One node whose timer is wired to the "Store Claimed Address" handler
NextStore ==
  \E n \in Nodes :
    \/ Request(n, "start", MaxRequests)
    \/ Retry(n)
    \/ Monitor(n)
    \/ StoreClaimedAddress(n)
    \/ TimerReset(n)
    \/ Foreign(n, CompetitorFrame(n))

SpecStore == Init /\ [][NextStore]_vars

\* Two nodes of this program on one bus, each started once
InitBus ==
  /\ InitWith(Nodes)
  /\ \A n, m \in Nodes : used_addresses[n] = used_addresses[m]

NextBus ==
  \E n \in Nodes :
    \/ Request(n, "start", MaxRequests)
    \/ Retry(n)
    \/ Monitor(n)
    \/ TimerFired(n)
    \/ TimerReset(n)

SpecBus == InitBus /\ [][NextBus]_vars

\* One node, started by its operator, on a bus where a competitor with a
\* smaller identity and one with a larger identity answer any number of
\* times at the address being claimed.  The whole valid range may be free.
\* The timer is the one-shot after(duration, token): it cannot be cancelled,
\* and the monitor's {reset: true} has no receiver (resetMsgs counts them).
LossPools == { {}, (MIN_ADDRESS + 1)..(STARTING_ADDRESS - 1) }

InitLoss ==
  /\ online = {1}
  /\ my_persistent_rvc_id \in [Nodes -> StoredIds]
  /\ \A n \in Nodes \ online : my_persistent_rvc_id[n] = NullStr
  /\ used_addresses \in [Nodes -> LossPools \cup {MIN_ADDRESS..STARTING_ADDRESS}]
  /\ \A n \in Nodes : (n \in online) = (used_addresses[n] \in LossPools)
  /\ rvc_source_address = [n \in Nodes |-> NULL]
  /\ address_attempt = [n \in Nodes |-> NULL]
  /\ claim_in_progress = [n \in Nodes |-> FALSE]
  /\ claiming_address = [n \in Nodes |-> NULL]
  /\ our_device_name = [n \in Nodes |-> NullStr]
  /\ timers = [n \in Nodes |-> <<>>]
  /\ inbox = [n \in Nodes |-> <<>>]
  /\ retryMsgs = [n \in Nodes |-> 0]
  /\ resetMsgs = [n \in Nodes |-> 0]
  /\ sent = [n \in Nodes |-> <<>>]
  /\ budget = [n \in Nodes |-> 0]
  /\ concurrent = {}
  /\ cycle = [n \in Nodes |-> NewCycle]
  /\ last = Event("init", 0, "", NULL, NoMsg, "")

LargerFrame(n) == [CompetitorFrame(n) EXCEPT !.dataPayload = NameLarge]

NextLoss ==
  \E n \in Nodes :
    \/ Request(n, "start", MaxRequests)
    \/ Retry(n)
    \/ Monitor(n)
    \/ TimerFired(n)
    \/ Foreign(n, CompetitorFrame(n))
    \/ Foreign(n, LargerFrame(n))

SpecLoss == InitLoss /\ [][NextLoss]_vars

\* retry messages and timer expiries are delivered eventually
SpecLossFair ==
  /\ SpecLoss
  /\ \A n \in Nodes : WF_vars(Retry(n)) /\ WF_vars(TimerFired(n))

\* One node whose home automation sends lock commands and polls while the
\* node claims its address against one competitor
LockInstances == {NULL, 0, 251}
LockCommands == {"LOCK", "UNLOCK", "OPEN"}

NextTraffic ==
  \E n \in Nodes :
    \/ Request(n, "start", MaxRequests)
    \/ Retry(n)
    \/ Monitor(n)
    \/ TimerFired(n)
    \/ Foreign(n, CompetitorFrame(n))
    \/ \E instance \in LockInstances, haCommand \in LockCommands :
         encode_lock_command(n, instance, haCommand)
    \/ poll_locks(n)

SpecTraffic == Init /\ [][NextTraffic]_vars

\* ------------------------------------------------------------------------
\* Properties
\* ------------------------------------------------------------------------
TypeOK ==
  /\ \A n \in Nodes : claiming_address[n] \in {NULL} \cup (MIN_ADDRESS..STARTING_ADDRESS)
  /\ \A n \in Nodes : claim_in_progress[n] \in BOOLEAN

\* the address a claim frame was sent from
FrameAddress(frame) == HexPrefixValue(SubSeq(frame.id, 7, 8), 0)

Announced(n, x) == \E i \in 1..Len(sent[n]) : FrameAddress(sent[n][i]) = x

\* the frames of the documented scenarios
Frame223 == [id |-> <<"1","8","E","E","0","0","D","F">>, data |-> NameScenario]
Frame222 == [id |-> <<"1","8","E","E","0","0","D","E">>, data |-> NameScenario]
CompetitorDF == [sourceAddress |-> <<"D","F">>, dataPayload |-> NameCompetitor]

\* the state of the claim of node n is left as it was
ClaimUntouched(n) ==
  /\ rvc_source_address'[n] = rvc_source_address[n]
  /\ claim_in_progress'[n] = claim_in_progress[n]
  /\ claiming_address'[n] = claiming_address[n]
  /\ our_device_name'[n] = our_device_name[n]
  /\ address_attempt'[n] = address_attempt[n]
  /\ my_persistent_rvc_id'[n] = my_persistent_rvc_id[n]

\* node n sends nothing: no frame, no retry, no timer reset, no timer
NothingSent(n) ==
  /\ sent'[n] = sent[n]
  /\ retryMsgs'[n] = retryMsgs[n]
  /\ resetMsgs'[n] = resetMsgs[n]
  /\ \A m \in Nodes : Len(inbox'[m]) <= Len(inbox[m])

\* every frame sent so far has reached every monitor
AllDelivered == \A n \in Nodes : inbox[n] = <<>>

\* C1: of two nodes with distinct identities that were claiming the same
\* address at the same time, only the one with the numerically smaller
\* identity ever commits that address.  The claim covers every order of
\* delivery; it is stated here for the timer expiries at which no
\* announcement is still on its way.
C1_OnlySmallerIdentityCommits ==
  \A a, b \in Nodes : \A x \in concurrent :
    ( /\ a # b
      /\ last.op = "success" /\ last.node = b /\ AllDelivered
      /\ Announced(a, x) /\ Announced(b, x)
      /\ IsIdentity(my_persistent_rvc_id[a]) /\ IsIdentity(my_persistent_rvc_id[b])
      /\ NumericallyLess(my_persistent_rvc_id[a], my_persistent_rvc_id[b]) )
    => rvc_source_address[b] # x

\* C2: no two nodes (of distinct identities) hold the same committed
\* address, also when one began to claim after the other had committed
\* (stated for the timer expiries at which no announcement is still on its
\* way, of nodes whose claims never overlapped).
C2_CommittedAddressesDistinct ==
  \A a, b \in Nodes :
    ( /\ a # b
      /\ concurrent = {}
      /\ last.op = "success" /\ AllDelivered
      /\ my_persistent_rvc_id[a] # my_persistent_rvc_id[b]
      /\ rvc_source_address[a] # NULL )
    => rvc_source_address[a] # rvc_source_address[b]

\* C3: an address is committed only by the timer that the most recent
\* announcement of the node armed.
C3_OnlyLatestTimerCommits ==
  (last.op = "success" /\ last.outcome = "commit")
    => last.ann = Len(sent[last.node])

\* C4: a timer message run while claiming is false, or with a token that
\* differs from claimingAddress, or without a token, changes nothing and
\* sends nothing.
C4_StaleTimerIsNoOp ==
  [][ \A n \in Nodes :
        ( /\ last'.op = "success" /\ last'.node = n
          /\ \/ ~claim_in_progress[n]
             \/ last'.token = NULL
             \/ claiming_address[n] # last'.token )
        => (ClaimUntouched(n) /\ NothingSent(n)) ]_vars

C4_Witness ==
  /\ last.op = "success" /\ last.token # NULL
  /\ claim_in_progress[last.node]
  /\ claiming_address[last.node] # last.token
  /\ rvc_source_address[last.node] = NULL

\* C5: a timer message run with claiming = true and claimingAddress = token
\* sets CommittedAddress = token and clears ClaimProgress; the timer of an
\* announcement 18EE00DF#8000000000ABCDEF that is still being claimed
\* commits 223.
C5_CommitOnLiveTimer ==
  [][ \A n \in Nodes :
        ( /\ last'.op = "success" /\ last'.node = n
          /\ claim_in_progress[n]
          /\ last'.token # NULL /\ claiming_address[n] = last'.token )
        => /\ rvc_source_address'[n] = last'.token
           /\ claim_in_progress'[n] = FALSE
           /\ claiming_address'[n] = NULL
           /\ our_device_name'[n] = NullStr
           /\ ( /\ last'.ann = Len(sent[n])
                /\ sent[n][last'.ann] = Frame223 )
              => rvc_source_address'[n] = 223 ]_vars

C5_Witness ==
  /\ last.op = "success" /\ last.outcome = "commit"
  /\ sent[last.node] = <<Frame223>>
  /\ rvc_source_address[last.node] = 223
  /\ ~claim_in_progress[last.node]

\* C6: the run of the timer handler never puts a frame on the bus.
C6_CommitSendsNoFrame ==
  [][ \A n \in Nodes :
        (last'.op = "success" /\ last'.node = n) => NothingSent(n) ]_vars

\* C7: while claiming, an inbound frame at claimingAddress whose identity
\* equals ourName changes nothing and triggers nothing; the armed timers stay.
C7_EchoIsIgnored ==
  [][ \A n \in Nodes :
        ( /\ last'.op = "monitor" /\ last'.node = n
          /\ claim_in_progress[n]
          /\ last'.msg.sourceAddress # NullStr
          /\ HexPrefixValue(last'.msg.sourceAddress, 0) = claiming_address[n]
          /\ last'.msg.dataPayload = our_device_name[n] )
        => /\ ClaimUntouched(n) /\ NothingSent(n)
           /\ claim_in_progress'[n]
           /\ timers'[n] = timers[n] ]_vars

C7_Witness ==
  /\ last.op = "monitor"
  /\ claim_in_progress[last.node]
  /\ last.msg.dataPayload = our_device_name[last.node]
  /\ last.msg.sourceAddress # NullStr
  /\ HexPrefixValue(last.msg.sourceAddress, 0) = claiming_address[last.node]
  /\ timers[last.node] # <<>>
  /\ Head(timers[last.node]).token = claiming_address[last.node]

\* C8: while claiming, an inbound frame at claimingAddress with an identity
\* different from ourName is decided by the numerical order of the two
\* identities: ourName smaller - nothing changes, nothing is sent, the timers
\* stay; otherwise the node loses (claiming becomes false, a retry is sent).
C8_SmallerIdentityWins ==
  [][ \A n \in Nodes :
        ( /\ last'.op = "monitor" /\ last'.node = n
          /\ claim_in_progress[n]
          /\ last'.msg.sourceAddress # NullStr
          /\ HexPrefixValue(last'.msg.sourceAddress, 0) = claiming_address[n]
          /\ IsIdentity(last'.msg.dataPayload)
          /\ toUpperCase(last'.msg.dataPayload) # our_device_name[n] )
        => IF NumericallyLess(our_device_name[n], last'.msg.dataPayload)
           THEN /\ ClaimUntouched(n) /\ NothingSent(n)
                /\ timers'[n] = timers[n]
           ELSE /\ claim_in_progress'[n] = FALSE
                /\ retryMsgs'[n] = retryMsgs[n] + 1 ]_vars

\* both branches have been taken: the node has won against a larger identity
\* and is still claiming
C8_Witness ==
  /\ last.op = "monitor"
  /\ claim_in_progress[last.node]
  /\ last.msg.dataPayload = NameLarge
  /\ last.msg.sourceAddress # NullStr
  /\ HexPrefixValue(last.msg.sourceAddress, 0) = claiming_address[last.node]
  /\ NumericallyLess(our_device_name[last.node], NameLarge)

\* C9: a lost conflict sets claiming = false and sends one retry; the retry
\* announces the next candidate.  With 8000000000ABCDEF claiming 223 and
\* 18EE00DF#7000000000112233 arriving before the timer fires, the next frame
\* is 18EE00DE#8000000000ABCDEF, and the timer armed for 223 commits nothing.
C9_LossRetriesOnNextCandidate ==
  [][ \A n \in Nodes :
        /\ ( /\ last'.op = "monitor" /\ last'.node = n
             /\ claim_in_progress[n] /\ ~claim_in_progress'[n] )
           => /\ retryMsgs'[n] = retryMsgs[n] + 1
              /\ sent'[n] = sent[n]
        /\ ( /\ last'.op = "monitor" /\ last'.node = n
             /\ claim_in_progress[n] /\ claiming_address[n] = 223
             /\ our_device_name[n] = NameScenario
             /\ last'.msg = CompetitorDF )
           => /\ claim_in_progress'[n] = FALSE
              /\ retryMsgs'[n] = retryMsgs[n] + 1
        /\ ( /\ last'.op = "request" /\ last'.node = n
             /\ last'.topic = "address_claim_retry"
             /\ sent[n] = <<Frame223>>
             /\ 222 \notin used_addresses[n] )
           => /\ sent'[n] = <<Frame223, Frame222>>
              /\ retryMsgs'[n] = retryMsgs[n] - 1
              /\ claim_in_progress'[n] /\ claiming_address'[n] = 222
              /\ timers'[n][Len(timers'[n])].token = 222
        /\ ( /\ last'.op = "success" /\ last'.node = n
             /\ budget[n] = 1
             /\ last'.ann = 1 /\ sent[n][1] = Frame223
             /\ (Len(sent[n]) > 1 \/ ~claim_in_progress[n]) )
           => /\ rvc_source_address'[n] = rvc_source_address[n]
              /\ rvc_source_address'[n] # 223 ]_vars

\* the retry has announced 222 and the timer armed for 223 has expired since
C9_Witness ==
  /\ last.op = "success" /\ last.token = 223 /\ last.ann = 1
  /\ sent[last.node] = <<Frame223, Frame222>>
  /\ claim_in_progress[last.node] /\ claiming_address[last.node] = 222
  /\ rvc_source_address[last.node] = NULL

\* C10: the retry after a lost conflict announces the largest address below
\* the previous candidate that is not in UsedAddressSet (previous - 1 when
\* that one is free), and reports the pool exhausted exactly when there is
\* no such address from MIN_ADDRESS up.
C10_NextCandidateSkipsUsed ==
  [][ \A n \in Nodes :
        ( /\ last'.op = "request" /\ last'.node = n
          /\ last'.topic = "address_claim_retry" )
        => LET previous == IF address_attempt[n] = NULL THEN STARTING_ADDRESS
                           ELSE address_attempt[n]
               free == {a \in MIN_ADDRESS..(previous - 1) : a \notin used_addresses[n]}
           IN IF free = {}
              THEN /\ last'.outcome = "exhausted"
                   /\ sent'[n] = sent[n]
                   /\ ~claim_in_progress'[n]
              ELSE LET best == CHOOSE a \in free : \A c \in free : c <= a
                   IN /\ last'.outcome = "announced"
                      /\ Len(sent'[n]) = Len(sent[n]) + 1
                      /\ FrameAddress(sent'[n][Len(sent'[n])]) = best
                      /\ claiming_address'[n] = best
                      /\ (previous - 1) \notin used_addresses[n] => best = previous - 1
    ]_vars

\* a retry has skipped the used addresses 222 and 221 and announced 220
C10_Witness ==
  /\ last.op = "request" /\ last.topic = "address_claim_retry"
  /\ {221, 222} \subseteq used_addresses[last.node]
  /\ sent[last.node] # <<>>
  /\ FrameAddress(sent[last.node][Len(sent[last.node])]) = 220
  /\ claiming_address[last.node] = 220

\* the addresses of the valid range a request of node n may announce: those
\* not in UsedAddressSet from MIN_ADDRESS up to where the selection starts
StartOfSelection(n, topic) ==
  LET previous == IF topic = "reset_device_id" \/ address_attempt[n] = NULL
                  THEN STARTING_ADDRESS ELSE address_attempt[n]
  IN IF topic = "address_claim_retry" THEN previous - 1 ELSE previous

FreeFrom(n, top) == {a \in MIN_ADDRESS..top : a \notin used_addresses[n]}

Highest(S) == CHOOSE a \in S : \A c \in S : c <= a

\* C11: a request whose selection ends below MIN_ADDRESS (no free address is
\* left from where the selection starts down to 208) sends no frame, arms no
\* timer and leaves claiming = false.
C11_ExhaustedRequestIsSilent ==
  [][ \A n \in Nodes :
        ( /\ last'.op = "request" /\ last'.node = n
          /\ FreeFrom(n, StartOfSelection(n, last'.topic)) = {} )
        => /\ sent'[n] = sent[n]
           /\ \A m \in Nodes : inbox'[m] = inbox[m]
           /\ timers'[n] = timers[n]
           /\ claim_in_progress'[n] = FALSE
           /\ last'.outcome = "exhausted" ]_vars

\* a retry after the loss of the last free address has found the pool
\* exhausted: from 221 the selection ran down to 207
C11_Witness ==
  /\ last.op = "request" /\ last.topic = "address_claim_retry"
  /\ last.outcome = "exhausted"
  /\ address_attempt[last.node] = 222
  /\ SkipUsed(221, used_addresses[last.node]) = 207
  /\ Len(sent[last.node]) = 1
  /\ ~claim_in_progress[last.node]

\* C12: once the pool has been reported exhausted, no claim frame is sent and
\* claiming stays false, whatever happens next, until a reset_device_id is
\* processed.
C12_ExhaustionIsTerminal ==
  [][ \A n \in Nodes :
        ( /\ cycle[n].failed
          /\ ~(last'.op = "request" /\ last'.node = n
               /\ last'.topic = "reset_device_id") )
        => /\ sent'[n] = sent[n]
           /\ claim_in_progress'[n] = FALSE ]_vars

\* node n has reached CLAIMED or FAILED and nothing of its claim is under way
Settled(n) ==
  /\ ~claim_in_progress[n]
  /\ retryMsgs[n] = 0
  /\ (rvc_source_address[n] # NULL \/ cycle[n].failed)

C14_ClaimingExcludesCommitted ==
  \A n \in Nodes : ~(claim_in_progress[n] /\ rvc_source_address[n] # NULL)

\* an ADDRESS_CLAIMED announcement: DGN EE00 in the identifier
IsClaimFrame(frame) == SubSeq(frame.id, 3, 6) = DGN

\* C15: while CommittedAddress is unset, every frame the node puts on the
\* bus is an ADDRESS_CLAIMED announcement: the command and poll encoders
\* send nothing.
C15_SilentUntilCommitted ==
  [][ \A n \in Nodes :
        (rvc_source_address[n] = NULL /\ sent'[n] # sent[n])
        => IsClaimFrame(sent'[n][Len(sent'[n])]) ]_vars

\* an identity as the request step generates it: 16 hex digits, the prefix
\* 8000000000 and a serial below 0x200000
IsGenerated(id) ==
  /\ id # NullStr /\ Len(id) = 16
  /\ \A i \in 1..16 : IsHexChar(id[i])
  /\ SubSeq(id, 1, 10) = <<"8","0","0","0","0","0","0","0","0","0">>
  /\ HexPrefixValue(SubSeq(id, 11, 16), 0) < 2 * 1024 * 1024

\* C16: the identity is generated only when none is stored (or on
\* reset_device_id), in the documented format; every other request, also
\* after a restart, keeps the stored identity and announces it; no other
\* step changes it.
C16_IdentityPersists ==
  [][ \A n \in Nodes :
        IF last'.op = "request" /\ last'.node = n
        THEN /\ IF last'.topic # "reset_device_id" /\ ~Falsy(my_persistent_rvc_id[n])
                THEN my_persistent_rvc_id'[n] = my_persistent_rvc_id[n]
                ELSE IsGenerated(my_persistent_rvc_id'[n])
             /\ sent'[n] # sent[n]
                => sent'[n][Len(sent'[n])].data = my_persistent_rvc_id'[n]
        ELSE my_persistent_rvc_id'[n] = my_persistent_rvc_id[n] ]_vars

\* a generated identity has been announced by two operator starts, the
\* second one in a fresh process (nothing of the first claim is left but the
\* stored identity)
C16_Witness ==
  /\ last.op = "request" /\ last.topic = "start"
  /\ Len(sent[last.node]) = 2
  /\ sent[last.node][1].data = sent[last.node][2].data
  /\ my_persistent_rvc_id[last.node] = sent[last.node][2].data
  /\ my_persistent_rvc_id[last.node] # NameScenario
  /\ IsGenerated(my_persistent_rvc_id[last.node])
  /\ Len(timers[last.node]) = 1 /\ Len(inbox[last.node]) = 1
  /\ rvc_source_address[last.node] = NULL
  /\ cycle[last.node] = NewCycle

\* C17: a reset_device_id, in whatever state it arrives, stores a newly
\* generated identity and starts a fresh claim: it announces the highest
\* address <= 223 that is not in UsedAddressSet with the new identity and
\* sets the attempt counter to it, or reports the pool exhausted (attempt
\* counter cleared) when no address from 208 to 223 is free.
C17_ResetStartsFreshClaim ==
  [][ \A n \in Nodes :
        ( /\ last'.op = "request" /\ last'.node = n
          /\ last'.topic = "reset_device_id" )
        => LET free == FreeFrom(n, STARTING_ADDRESS)
           IN /\ IsGenerated(my_persistent_rvc_id'[n])
              /\ IF free = {}
                 THEN /\ last'.outcome = "exhausted"
                      /\ address_attempt'[n] = NULL
                      /\ sent'[n] = sent[n]
                      /\ ~claim_in_progress'[n]
                 ELSE /\ last'.outcome = "announced"
                      /\ address_attempt'[n] = Highest(free)
                      /\ claiming_address'[n] = Highest(free)
                      /\ claim_in_progress'[n]
                      /\ our_device_name'[n] = my_persistent_rvc_id'[n]
                      /\ sent'[n] = Append(sent[n],
                                           [id |-> Frame223.id, data |-> my_persistent_rvc_id'[n]])
                         \/ Highest(free) # 223
                      /\ Len(sent'[n]) = Len(sent[n]) + 1
                      /\ FrameAddress(sent'[n][Len(sent'[n])]) = Highest(free)
                      /\ sent'[n][Len(sent'[n])].data = my_persistent_rvc_id'[n]
                      /\ timers'[n] = Append(timers[n],
                                             [token |-> Highest(free), ann |-> Len(sent'[n])])
    ]_vars

\* a reset has arrived at a node that had committed 222 after losing 223:
\* the fresh claim announces 223 again, with a generated identity
C17_Witness ==
  /\ last.op = "request" /\ last.topic = "reset_device_id"
  /\ rvc_source_address[last.node] = 222
  /\ claim_in_progress[last.node] /\ claiming_address[last.node] = 223
  /\ address_attempt[last.node] = 223
  /\ Len(sent[last.node]) = 3
  /\ FrameAddress(sent[last.node][2]) = 222
  /\ FrameAddress(sent[last.node][3]) = 223
  /\ IsGenerated(sent[last.node][3].data)

\* C18: the frame announced for candidate a with identity n has the
\* identifier 6*2^26 + 0xEE00*2^8 + a written as 8 upper-case hex digits
\* (18EE00DF for 223), whose low 8 bits are a, and the payload n.
C18_FrameEncoding ==
  [][ \A n \in Nodes :
        ( /\ last'.op = "request" /\ last'.node = n
          /\ last'.outcome = "announced" )
        => LET a == claiming_address'[n]
               frame == sent'[n][Len(sent'[n])]
           IN /\ Len(sent'[n]) = Len(sent[n]) + 1
              /\ a \in MIN_ADDRESS..STARTING_ADDRESS
              /\ Len(frame.id) = 8
              /\ \A i \in 1..8 : \E d \in 1..16 : HexDigits[d] = frame.id[i]
              /\ HexPrefixValue(frame.id, 0) = 6 * (2 ^ 26) + 60928 * (2 ^ 8) + a
              /\ HexPrefixValue(frame.id, 0) % 256 = a
              /\ a = 223 => frame.id = <<"1","8","E","E","0","0","D","F">>
              /\ frame.data = my_persistent_rvc_id'[n]
              /\ frame.data = our_device_name'[n]
              /\ ~Falsy(my_persistent_rvc_id[n])
                 => frame.data = my_persistent_rvc_id[n] ]_vars

\* every address from 223 down to 208 has been announced, the last one as
\* 18EE00D0
C18_Witness ==
  /\ last.op = "request" /\ last.outcome = "announced"
  /\ Len(sent[last.node]) = 16
  /\ sent[last.node][1].id = <<"1","8","E","E","0","0","D","F">>
  /\ sent[last.node][16].id = <<"1","8","E","E","0","0","D","0">>
  /\ claiming_address[last.node] = MIN_ADDRESS

\* the armed timers of node n whose message would pass the checks of the
\* timer handler in the current state
LiveTimers(n) ==
  {i \in 1..Len(timers[n]) :
     claim_in_progress[n] /\ timers[n][i].token = claiming_address[n]}

\* C19: at most one armed timer would pass the checks of the timer handler
\* (claiming = true and token = claimingAddress).
C19_OneLiveTimer ==
  \A n \in Nodes : Cardinality(LiveTimers(n)) <= 1

\* the outcome of a request run of node n is the one of a selection that
\* starts at address top
SelectsFrom(n, top) ==
  LET free == FreeFrom(n, top)
  IN IF free = {}
     THEN /\ last'.outcome = "exhausted"
          /\ sent'[n] = sent[n]
     ELSE /\ last'.outcome = "announced"
          /\ address_attempt'[n] = Highest(free)
          /\ claiming_address'[n] = Highest(free)
          /\ Len(sent'[n]) = Len(sent[n]) + 1
          /\ FrameAddress(sent'[n][Len(sent'[n])]) = Highest(free)

\* C20: the selection starts at 223 only for a request that is no
\* retry and finds no attempt counter; every other request, also a non-retry
\* one made while an attempt counter exists, starts at the previous candidate
\* minus 1.
C20_StartsAt223OnlyWithoutCounter ==
  [][ \A n \in Nodes :
        (last'.op = "request" /\ last'.node = n)
        => LET none == last'.topic = "reset_device_id" \/ address_attempt[n] = NULL
               previous == IF none THEN STARTING_ADDRESS ELSE address_attempt[n]
           IN SelectsFrom(n, IF last'.topic # "address_claim_retry" /\ none
                             THEN STARTING_ADDRESS ELSE previous - 1) ]_vars


\* the claim frame node n broadcast last
LatestFrame(n) == sent[n][Len(sent[n])]

\* C21: claimingAddress, when non-null, is the address of the claim frame
\* broadcast last, and the timer armed with that frame carries it as its
\* token; the handlers change it only when they broadcast (to the address of
\* the frame) and when they commit (to null).  A restart of the process,
\* which empties the flow context, is no step of a handler.
C21_ClaimingAddressFollowsBroadcast ==
  /\ [](\A n \in Nodes :
          /\ claiming_address[n] # NULL
             => /\ sent[n] # <<>>
                /\ FrameAddress(LatestFrame(n)) = claiming_address[n]
          /\ \A i \in 1..Len(timers[n]) :
               timers[n][i].ann = Len(sent[n])
               => timers[n][i].token = FrameAddress(LatestFrame(n)))
  /\ [][ \A n \in Nodes :
           (claiming_address'[n] # claiming_address[n] /\ last'.op # "restart")
           => \/ /\ last'.op = "request" /\ last'.outcome = "announced"
                 /\ Len(sent'[n]) = Len(sent[n]) + 1
                 /\ claiming_address'[n] = FrameAddress(sent'[n][Len(sent'[n])])
              \/ /\ last'.op = "success" /\ last'.outcome = "commit"
                 /\ claiming_address'[n] = NULL ]_vars

\* the retry announcement of 222 has been lost as well: claiming is false,
\* claimingAddress is still the address of the frame broadcast last
C21_Witness ==
  /\ last.op = "monitor" /\ last.outcome = "lose"
  /\ Len(sent[last.node]) = 2
  /\ FrameAddress(LatestFrame(last.node)) = 222
  /\ claiming_address[last.node] = 222
  /\ ~claim_in_progress[last.node]

\* C22: CommittedAddress is written by the commit of the timer handler only:
\* no request (start, retry, reset, exhausted or not), no run of the monitor,
\* no restart changes it.
C22_OnlyCommitWritesCommitted ==
  [][ \A n \in Nodes :
        rvc_source_address'[n] # rvc_source_address[n]
        => /\ last'.op = "success" /\ last'.node = n
           /\ last'.outcome = "commit"
           /\ rvc_source_address'[n] = last'.token ]_vars

\* a node that had committed 223 was reset, announced 223 again and lost the
\* conflict: 223 is still committed
C22_Witness ==
  /\ last.op = "monitor" /\ last.outcome = "lose"
  /\ rvc_source_address[last.node] = 223
  /\ claiming_address[last.node] = 223
  /\ retryMsgs[last.node] = 1


\* node n arms and cancels no timer, and its inputs stay as they are
TimersUntouched(n) ==
  /\ timers'[n] = timers[n]
  /\ used_addresses'[n] = used_addresses[n]

\* C23: a run of the monitor while claiming is false, or for a frame whose
\* source address differs from claimingAddress, changes nothing and sends
\* nothing (no retry, no timer reset, no frame); so a conflict frame for an
\* address the node has abandoned is absorbed.
C23_MonitorIgnoresUnrelated ==
  [][ \A n \in Nodes :
        ( /\ last'.op = "monitor" /\ last'.node = n
          /\ \/ ~claim_in_progress[n]
             \/ parseInt16(last'.msg.sourceAddress) # claiming_address[n] )
        => /\ ClaimUntouched(n) /\ NothingSent(n) /\ TimersUntouched(n)
           /\ last'.outcome \notin {"lose", "win", "echo"} ]_vars

\* after the loss of 223 the node claims 222; a further frame of the
\* competitor at 223 has been absorbed
C23_Witness ==
  /\ last.op = "monitor" /\ last.msg = CompetitorDF
  /\ last.outcome = "other_address"
  /\ Len(sent[last.node]) = 2
  /\ claim_in_progress[last.node] /\ claiming_address[last.node] = 222
  /\ retryMsgs[last.node] = 0
  /\ rvc_source_address[last.node] = NULL

\* a claim frame without an identity or with one that is no hexadecimal
\* number, or without a source address
Malformed(msg) ==
  \/ msg.dataPayload = NullStr
  \/ \E i \in 1..Len(msg.dataPayload) : ~IsHexChar(msg.dataPayload[i])
  \/ msg.sourceAddress = NullStr

\* C24: a run of the monitor for a malformed claim frame changes neither
\* ClaimProgress nor CommittedAddress nor the attempt counter and triggers
\* no retry, whether a claim is in flight or not; the timer of the claim in
\* flight stays armed and still passes the checks of the timer handler.
C24_MalformedFrameIgnored ==
  [][ \A n \in Nodes :
        ( /\ last'.op = "monitor" /\ last'.node = n
          /\ \/ ~claim_in_progress[n]
             \/ Malformed(last'.msg) )
        => /\ ClaimUntouched(n) /\ NothingSent(n) /\ TimersUntouched(n)
           /\ LiveTimers(n)' = LiveTimers(n) ]_vars

\* a frame for the address being claimed whose identity is no hexadecimal
\* number has been processed; the timer of the claim is still armed
C24_Witness ==
  /\ last.op = "monitor" /\ last.outcome = "error"
  /\ last.msg.dataPayload = <<"Z","Z">>
  /\ parseInt16(last.msg.sourceAddress) = claiming_address[last.node]
  /\ LiveTimers(last.node) # {}
  /\ retryMsgs[last.node] = 0


\* C25: no address is committed by a node that has processed, since it
\* announced that address last, a claim frame for the address with an
\* identity numerically smaller than its own.
C25_NoCommitAfterSmallerIdentity ==
  [][ \A n \in Nodes :
        ( /\ last'.op = "success" /\ last'.node = n
          /\ last'.outcome = "commit" )
        => ~cycle[n].beaten ]_vars

\* the timer of a lost announcement has fired after the frame of the
\* smaller competitor was processed, and committed nothing
C25_Witness ==
  /\ last.op = "success" /\ last.outcome = "cancelled"
  /\ last.ann = Len(sent[last.node])
  /\ cycle[last.node].beaten
  /\ claiming_address[last.node] = last.token
  /\ rvc_source_address[last.node] = NULL


\* C26: whenever claiming is true a timer that carries claimingAddress is
\* armed, in whatever order the retry message and the timer reset of a lost
\* conflict are delivered.
C26_ClaimingHasPendingTimer ==
  \A n \in Nodes :
    claim_in_progress[n]
    => \E i \in 1..Len(timers[n]) : timers[n][i].token = claiming_address[n]

\* C27: an announcement leads to at most one retry.  The monitor signals a
\* retry only for an announcement that has not lost yet; once it has, every
\* further frame, for the lost address or another, is absorbed; and the
\* candidate is decremented by the runs of the request step only, one retry
\* message each.
C27_OneRetryPerAnnouncement ==
  /\ [](\A n \in Nodes : cycle[n].lost <= 1)
  /\ [][ \A n \in Nodes :
           /\ retryMsgs'[n] > retryMsgs[n]
              => /\ retryMsgs'[n] = retryMsgs[n] + 1
                 /\ last'.op = "monitor" /\ last'.outcome = "lose"
                 /\ cycle[n].lost = 0
           /\ (last'.op = "monitor" /\ last'.node = n /\ cycle[n].lost >= 1)
              => (ClaimUntouched(n) /\ NothingSent(n) /\ TimersUntouched(n))
           /\ (address_attempt'[n] # address_attempt[n] /\ last'.op # "restart")
              => /\ last'.op = "request"
                 /\ last'.topic = "address_claim_retry"
                    => retryMsgs'[n] = retryMsgs[n] - 1 ]_vars

\* a further frame has been processed after the loss and before the retry
\* message: one retry is on its way, the candidate is still 223
C27_Witness ==
  /\ last.op = "monitor" /\ last.outcome = "not_claiming"
  /\ cycle[last.node].lost = 1 /\ cycle[last.node].beaten
  /\ retryMsgs[last.node] = 1
  /\ address_attempt[last.node] = 223 /\ claiming_address[last.node] = 223
  /\ Len(sent[last.node]) = 1

\* C28: every announced candidate, claimingAddress when non-null and
\* CommittedAddress when set lie in 208..223, and no candidate is in
\* UsedAddressSet when it is announced.
C28_AddressesInRange ==
  /\ [](\A n \in Nodes :
          /\ \A i \in 1..Len(sent[n]) :
               FrameAddress(sent[n][i]) \in MIN_ADDRESS..STARTING_ADDRESS
          /\ claiming_address[n] # NULL
             => claiming_address[n] \in MIN_ADDRESS..STARTING_ADDRESS
          /\ rvc_source_address[n] # NULL
             => rvc_source_address[n] \in MIN_ADDRESS..STARTING_ADDRESS)
  /\ [][ \A n \in Nodes :
           sent'[n] # sent[n]
           => /\ FrameAddress(sent'[n][Len(sent'[n])]) \notin used_addresses[n]
              /\ FrameAddress(sent'[n][Len(sent'[n])]) = claiming_address'[n] ]_vars

\* with 209..222 occupied the node has lost 223, announced 208 and
\* committed it
C28_Witness ==
  \E n \in Nodes :
    /\ used_addresses[n] = (MIN_ADDRESS + 1)..(STARTING_ADDRESS - 1)
    /\ Len(sent[n]) = 2
    /\ FrameAddress(sent[n][2]) = MIN_ADDRESS
    /\ rvc_source_address[n] = MIN_ADDRESS

\* C29: a claim frame the node sent itself never makes the node lose a
\* conflict when its monitor sees it, also when a reset has changed the
\* identity in between.
C29_OwnFrameNeverLoses ==
  [][ \A n \in Nodes :
        ( /\ last'.op = "monitor" /\ last'.node = n
          /\ inbox[n] # <<>> /\ inbox'[n] = Tail(inbox[n])
          /\ \E i \in 1..Len(sent[n]) : Decode(sent[n][i]) = Head(inbox[n]) )
        => last'.outcome # "lose" ]_vars

\* C30: the two timer handlers agree on the claim state: the expiry of an
\* armed timer leaves CommittedAddress, claiming and claimingAddress as the
\* "Store Claimed Address" handler would leave them in the same state.
C30_TimerHandlersEquivalent ==
  [][ \A n \in Nodes :
        (last'.op = "success" /\ last'.node = n /\ last'.ann > 0)
        => IF StoreOutcome(claim_in_progress[n], claiming_address[n]) = "commit"
           THEN /\ rvc_source_address'[n] = claiming_address[n]
                /\ claim_in_progress'[n] = FALSE
                /\ claiming_address'[n] = NULL
           ELSE /\ rvc_source_address'[n] = rvc_source_address[n]
                /\ claim_in_progress'[n] = claim_in_progress[n]
                /\ claiming_address'[n] = claiming_address[n] ]_vars

====
